---------------------------- MODULE Spec2Model ----------------------------
(***************************************************************************)
(* Model of dtls.Session (dtls/session.go): the life cycle of one DTLS     *)
(* session.  Run's read/process loop, its deferred cleanup, the idle-timer *)
(* goroutine it starts, and the operations other goroutines may call        *)
(* concurrently (Close, AddOnClose, SetContextValue) are the processes of  *)
(* the model; the Session's fields are its state.                          *)
(***************************************************************************)
EXTENDS Integers, Sequences, FiniteSets, TLC

\* ------------------------------------------------------------------ bounds
MaxHooks == 2        \* hooks that callers may register
MaxReads == 2        \* datagrams the transport may deliver
MaxCloseCalls == 1   \* Close() calls made by external callers
MaxSetters == 2      \* concurrent SetContextValue callers

Hooks == 1..MaxHooks
Setters == 1..MaxSetters
Keys == {"k1", "k2"}

Nil == "nil"
None == "none"
Free == 0
\* what Context().Value(key) gives for a key that was never set
NoValue == 0
\* errors ReadWithContext may return: a transport failure, or the error of a
\* cancelled context
ReadErrs == {"readErr", "ctxErr"}
ProcErrs == {"procErr"}
\* what connection.Close() may return
SockResults == {Nil, "sockErr"}

VARIABLES
    closeSocket,      \* Session.closeSocket
    onClose,          \* Session.onClose
    mutex,            \* Session.mutex: Free or the setter holding it
    ctx,              \* Session.ctx: the context stored in the atomic cell
    cancelled,        \* the root context made in NewSession is done
    parentCancelled,  \* the context passed to NewSession is done
    rpc,              \* position of the goroutine executing Run
    err,              \* Run's named result
    readCtx,          \* the context the read in flight was called with
    tmp,              \* close(): hooks popped and not yet invoked
    timerArmed,       \* Run's timer is running
    timerC,           \* values buffered in timer.C
    tpc,              \* position of the idle-timer goroutine
    spc,              \* position of each SetContextValue caller
    skey,             \* the key each SetContextValue caller passes
    slocal,           \* the local ctx of each SetContextValue caller
    \* ---- history of the run, read by the properties only
    registered,       \* hooks in the order AddOnClose appended them
    nBefore,          \* how many of them were appended before cancellation
    nIdle,            \* how many of them were appended before Run started
    nLoop,            \* how many of them were appended before the loop ended
    nLive,            \* how many of them were appended before Run returned
    closeDuringRun,   \* an external Close() call was made while Run was active
    failure,          \* the first error ReadWithContext or Process returned
    invoked,          \* hooks in the order they were invoked
    popCount,         \* completed popOnClose calls
    connCloses,       \* connection.Close() calls
    closeCalls,       \* Session.Close() calls, by anyone
    extCloses,        \* Session.Close() calls by external callers
    closeRet,         \* what the last Session.Close() call returned
    committed,        \* per key, the value of the last SetContextValue stored
    reads,            \* ReadWithContext calls that returned data
    readCalls,        \* ReadWithContext calls made
    procs,            \* Process calls made
    loopErr,          \* the error the loop returned
    sockErr,          \* what connection.Close() returned to close()
    resets,           \* timer.Reset calls made
    lastWrite,        \* the last WriteMessage call: its result and what it did
    hookCalls         \* the Session methods that hooks have called

vars == <<closeSocket, onClose, mutex, ctx, cancelled, parentCancelled, rpc,
          err, readCtx, tmp, timerArmed, timerC, tpc, spc, skey, slocal, registered,
          nBefore, invoked, popCount, connCloses, closeCalls, extCloses,
          closeRet, committed, reads, readCalls, procs, loopErr, sockErr,
          nIdle, nLoop, nLive, closeDuringRun, failure, resets, lastWrite,
          hookCalls>>

sessionVars == <<closeSocket, onClose, mutex, ctx>>
runVars == <<rpc, err, readCtx, tmp, loopErr, sockErr, reads, readCalls,
             procs, failure>>
timerVars == <<timerArmed, timerC, tpc>>
setterVars == <<spc, skey, slocal, committed>>
hookHist == <<registered, nBefore, nIdle, nLoop, nLive, invoked, popCount,
              connCloses>>
closeHist == <<closeCalls, extCloses, closeRet, closeDuringRun>>
callVars == <<lastWrite, hookCalls>>

\* ------------------------------------------------------------ pure helpers

\* A context is the cancellable context it derives from (root) and the
\* chain of WithValue pairs wrapped around it (vals).  SessionCtx is the
\* one NewSession makes with context.WithCancel and stores.
SessionCtx == [root |-> "session", vals |-> <<>>]

\* a context that derives from no cancellable context
Background == [root |-> "background", vals |-> <<>>]

\* context.Value(key) on a chain of WithValue pairs: the innermost
\* (most recently wrapped) pair with that key wins
RECURSIVE Value(_, _)
Value(c, k) ==
    IF c = <<>> THEN NoValue
    ELSE IF c[Len(c)][1] = k THEN c[Len(c)][2]
    ELSE Value(SubSeq(c, 1, Len(c) - 1), k)

\* a WithValue that wraps a fresh background context instead of its parent
WithValueDetached(c, k, v) ==
    [root |-> "background", vals |-> Append(c.vals, <<k, v>>)]

\* context.WithValue(parent, key, val): the result derives from parent
WithValue(c, k, v) == [c EXCEPT !.vals = Append(c.vals, <<k, v>>)]

\* <-c.Done() is ready: the context derives from the session's cancellable
\* context and s.cancel() was called or the parent context is done
IsDone(c, sessionDone) == c.root = "session" /\ sessionDone

\* a read called with a context of its own
ReadCtxBackground(c) == Background

\* the context Run passes to ReadWithContext: s.Context().  The read only
\* waits on its Done(), so its values are not kept.
ReadCtx(c) == [c EXCEPT !.vals = <<>>]

\* the holder of the mutex while Run's goroutine is inside popOnClose
RunHolder == MaxSetters + 1

\* a popOnClose that returns with the mutex still locked
popOnCloseNoUnlock(holder) == holder

\* popOnClose: `defer s.mutex.Unlock()`
popOnCloseUnlock(holder) == Free

\* the hook that hook h registers when its body calls AddOnClose, and the
\* value it stores when its body calls SetContextValue
NestedHook(h) == MaxHooks + h
HookValue(h) == MaxSetters + h

\* a cancel function that does nothing
cancelNoop(c) == c

\* s.cancel(): the root context becomes done; idempotent
cancel(c) == TRUE

\* the deferred function overwriting err unconditionally
LastErr(e, e1) == e1

\* the `if err == nil { err = err1 }` of Run's deferred function
FirstErr(e, e1) == IF e = Nil THEN e1 ELSE e

\* a registry that puts the newest hook first
prependOnClose(q, f) == <<f>> \o q

\* s.onClose = append(s.onClose, f)
appendOnClose(q, f) == Append(q, f)

\* popOnClose: returns the list and leaves nil behind
popOnClose(q) == [ret |-> q, onClose |-> <<>>]

\* no mutual exclusion at all
CanLockAlways(m) == TRUE

\* sync.Mutex.Lock can proceed
CanLock(m) == m = Free

\* close() closing the connection whatever closeSocket says
closesConnAlways(cs) == TRUE

\* close(): `if s.closeSocket { return s.connection.Close() }`
closesConn(cs) == cs

\* a loop that also ends when Process returned nil
AfterProcessBreak(e) == "cleanup"

\* a loop that ignores the error of Process
AfterProcessIgnore(e) == "reading"

\* where the loop goes after cc.Process returned e
AfterProcess(e) == IF e = Nil THEN "reading" ELSE "cleanup"

\* timer.Stop / timer.Reset may or may not discard a value already sent on
\* timer.C, depending on the Go release the build uses
ChanAfter(c) == {c, 0}

\* no WriteMessage call was made yet
NoWrite == [ret |-> None, attempted |-> FALSE, msgDone |-> FALSE,
            sessionDone |-> FALSE]

\* what WriteMessage may return besides nil: its wrapped Marshal error, or
\* an error of WriteWithContext (a transport failure, a done context)
EncErr == "cannot marshal"
WriteErrs == {"writeErr", "ctxErr"}

\* a WriteMessage that bounds the write by the session context
WriteCtxSession(msgDone, sessionDone) == sessionDone

\* whether the context WriteMessage passes to WriteWithContext is done: it
\* is req.Context(), the session context plays no part
WriteCtx(msgDone, sessionDone) == msgDone

\* what WriteWithContext returns: the error of its context when that is
\* done, else nil or a transport failure
WriteOutcomes(done) == IF done THEN {"ctxErr"} ELSE {Nil, "writeErr"}

\* positions of Run before its loop has returned
InLoop == {"idle", "reading", "process"}

Init ==
    /\ closeSocket \in BOOLEAN
    /\ onClose = <<>>
    /\ mutex = Free
    /\ ctx = SessionCtx
    /\ cancelled = FALSE
    /\ parentCancelled = FALSE
    /\ rpc = "idle"
    /\ err = Nil
    /\ readCtx = SessionCtx
    /\ tmp = <<>>
    /\ timerArmed = FALSE
    /\ timerC = 0
    /\ tpc = "none"
    /\ spc = [i \in Setters |-> "idle"]
    /\ skey = [i \in Setters |-> None]
    /\ slocal = [i \in Setters |-> SessionCtx]
    /\ registered = <<>>
    /\ nBefore = 0
    /\ nIdle = 0
    /\ nLoop = 0
    /\ nLive = 0
    /\ closeDuringRun = FALSE
    /\ failure = Nil
    /\ invoked = <<>>
    /\ popCount = 0
    /\ connCloses = 0
    /\ closeCalls = 0
    /\ extCloses = 0
    /\ closeRet = None
    /\ committed = [k \in Keys |-> NoValue]
    /\ reads = 0
    /\ readCalls = 0
    /\ procs = 0
    /\ loopErr = Nil
    /\ sockErr = Nil
    /\ resets = 0
    /\ lastWrite = NoWrite
    /\ hookCalls = {}

\* ------------------------------------------------------ external callers

\* a Close() that runs the teardown itself
CloseTeardown ==
    /\ extCloses < MaxCloseCalls
    /\ cancelled' = cancel(cancelled)
    /\ closeRet' = Nil
    /\ closeCalls' = closeCalls + 1
    /\ extCloses' = extCloses + 1
    /\ closeDuringRun' = (closeDuringRun \/ rpc \notin {"idle", "done"})
    /\ CanLock(mutex)
    /\ onClose' = <<>>
    /\ invoked' = invoked \o onClose
    /\ popCount' = popCount + 1
    /\ connCloses' = IF closeSocket THEN connCloses + 1 ELSE connCloses
    /\ UNCHANGED <<closeSocket, mutex, ctx, runVars, timerVars, setterVars,
                   registered, nBefore, nIdle, nLoop, nLive, parentCancelled,
                   resets, callVars>>

\* Session.Close() called by an external goroutine
Close ==
    /\ extCloses < MaxCloseCalls
    /\ cancelled' = cancel(cancelled)
    /\ closeRet' = Nil
    /\ closeCalls' = closeCalls + 1
    /\ extCloses' = extCloses + 1
    /\ closeDuringRun' = (closeDuringRun \/ rpc \notin {"idle", "done"})
    /\ UNCHANGED <<sessionVars, runVars, timerVars, setterVars, hookHist,
                   parentCancelled,
                   resets, callVars>>

\* the context given to NewSession is cancelled by its owner
ParentCancel ==
    /\ ~parentCancelled
    /\ parentCancelled' = TRUE
    /\ cancelled' = TRUE
    /\ UNCHANGED <<sessionVars, runVars, timerVars, setterVars, hookHist,
                   closeHist,
                   resets, callVars>>

\* Session.AddOnClose(f): the critical section is one step.  Hooks are named
\* by the order in which they are registered.
AddOnClose(f) ==
    /\ f = Len(registered) + 1
    /\ CanLock(mutex)
    /\ onClose' = appendOnClose(onClose, f)
    /\ registered' = Append(registered, f)
    /\ nBefore' = IF cancelled THEN nBefore ELSE nBefore + 1
    /\ nIdle' = IF rpc = "idle" THEN nIdle + 1 ELSE nIdle
    /\ nLoop' = IF rpc \in InLoop THEN nLoop + 1 ELSE nLoop
    /\ nLive' = IF rpc /= "done" THEN nLive + 1 ELSE nLive
    /\ UNCHANGED <<closeSocket, mutex, ctx, cancelled, parentCancelled,
                   runVars, timerVars, setterVars, invoked, popCount,
                   connCloses, closeHist,
                   resets, callVars>>

\* Session.SetContextValue(k, i): Lock, then WithValue over Context().
\* Callers are named by the order in which they get past Lock, and the key
\* of the first one is named k1.
SetLock(i, k) ==
    /\ spc[i] = "idle"
    /\ \A j \in Setters : j < i => spc[j] /= "idle"
    /\ i = 1 => k = "k1"
    /\ CanLock(mutex)
    /\ mutex' = i
    /\ spc' = [spc EXCEPT ![i] = "locked"]
    /\ skey' = [skey EXCEPT ![i] = k]
    /\ slocal' = [slocal EXCEPT ![i] = WithValue(ctx, k, i)]
    /\ UNCHANGED <<closeSocket, onClose, ctx, cancelled, parentCancelled,
                   runVars, timerVars, committed, hookHist, closeHist,
                   resets, callVars>>

\* Session.SetContextValue: s.ctx.Store(&ctx), then the deferred Unlock
SetStore(i) ==
    /\ spc[i] = "locked"
    /\ ctx' = slocal[i]
    /\ mutex' = Free
    /\ spc' = [spc EXCEPT ![i] = "done"]
    /\ slocal' = [slocal EXCEPT ![i] = SessionCtx]
    /\ committed' = [committed EXCEPT ![skey[i]] = i]
    /\ UNCHANGED <<closeSocket, onClose, cancelled, parentCancelled, runVars,
                   timerVars, skey, hookHist, closeHist,
                   resets, callVars>>

\* a WriteMessage that closes the session when it fails
WriteMessageClosing(ok, msgDone, r) ==
    /\ IF ok
         THEN /\ r \in WriteOutcomes(WriteCtx(msgDone, cancelled))
              /\ lastWrite' = [ret |-> r, attempted |-> TRUE,
                               msgDone |-> msgDone, sessionDone |-> cancelled]
              /\ cancelled' = (cancelled \/ r /= Nil)
         ELSE /\ ~msgDone
              /\ r = Nil
              /\ lastWrite' = [ret |-> EncErr, attempted |-> FALSE,
                               msgDone |-> FALSE, sessionDone |-> cancelled]
              /\ cancelled' = TRUE
    /\ UNCHANGED <<sessionVars, parentCancelled, runVars, timerVars,
                   setterVars, hookHist, closeHist, resets, hookCalls>>

\* Session.WriteMessage(req): ok is whether req.Marshal() succeeds, msgDone
\* whether req.Context() is done, r what WriteWithContext returns.  When
\* Marshal fails the other two are not looked at.
WriteMessage(ok, msgDone, r) ==
    /\ IF ok
         THEN /\ r \in WriteOutcomes(WriteCtx(msgDone, cancelled))
              /\ lastWrite' = [ret |-> r, attempted |-> TRUE,
                               msgDone |-> msgDone, sessionDone |-> cancelled]
         ELSE /\ ~msgDone
              /\ r = Nil
              /\ lastWrite' = [ret |-> EncErr, attempted |-> FALSE,
                               msgDone |-> FALSE, sessionDone |-> cancelled]
    /\ UNCHANGED <<sessionVars, cancelled, parentCancelled, runVars, timerVars,
                   setterVars, hookHist, closeHist, resets, hookCalls>>

\* ------------------------------------------------------------------- Run

\* Run up to its first s.connection.ReadWithContext(s.Context(), readBuf):
\* the deferred cleanup is registered, the timer is created and the
\* idle-timer goroutine is started
RunStart ==
    /\ rpc = "idle"
    /\ rpc' = "reading"
    /\ readCtx' = ReadCtx(ctx)
    /\ readCalls' = readCalls + 1
    /\ timerArmed' = TRUE
    /\ tpc' = "waiting"
    /\ UNCHANGED <<sessionVars, cancelled, parentCancelled, err, tmp, loopErr,
                   sockErr, reads, procs, failure, timerC, setterVars,
                   hookHist, closeHist,
                   resets, callVars>>

\* a loop that does not reset the timer after a read
ReadOkNoReset ==
    /\ rpc = "reading"
    /\ reads < MaxReads
    /\ rpc' = "process"
    /\ reads' = reads + 1
    /\ UNCHANGED <<sessionVars, cancelled, parentCancelled, err, readCtx, tmp,
                   loopErr, sockErr, readCalls, procs, failure, timerVars,
                   setterVars, hookHist, closeHist, resets, callVars>>

\* the read returns a datagram; timer.Reset follows
ReadOk ==
    /\ rpc = "reading"
    /\ reads < MaxReads
    /\ rpc' = "process"
    /\ reads' = reads + 1
    /\ timerArmed' = TRUE
    /\ resets' = resets + 1
    /\ timerC' \in ChanAfter(timerC)
    /\ UNCHANGED <<sessionVars, cancelled, parentCancelled, err, readCtx, tmp,
                   loopErr, sockErr, readCalls, procs, failure, tpc,
                   setterVars, hookHist, closeHist,
                   callVars>>

\* a loop that hands the buffer to Process although the read failed
ReadFailProcess(e) ==
    /\ rpc = "reading"
    /\ e = "ctxErr" => IsDone(readCtx, cancelled)
    /\ rpc' = "process"
    /\ timerArmed' = TRUE
    /\ resets' = resets + 1
    /\ timerC' \in ChanAfter(timerC)
    /\ UNCHANGED <<sessionVars, cancelled, parentCancelled, err, readCtx, tmp,
                   loopErr, sockErr, reads, readCalls, procs, failure, tpc,
                   setterVars, hookHist, closeHist,
                   callVars>>

\* the read returns error e; timer.Reset, `return err`, and the deferred
\* timer.Stop follow
ReadFail(e) ==
    /\ rpc = "reading"
    /\ e = "ctxErr" => IsDone(readCtx, cancelled)
    /\ rpc' = "cleanup"
    /\ err' = e
    /\ loopErr' = e
    /\ failure' = IF failure = Nil THEN e ELSE failure
    /\ resets' = resets + 1
    /\ timerArmed' = FALSE
    /\ timerC' \in ChanAfter(timerC)
    /\ UNCHANGED <<sessionVars, cancelled, parentCancelled, readCtx, tmp,
                   sockErr, reads, readCalls, procs, tpc, setterVars,
                   hookHist, closeHist,
                   callVars>>

\* cc.Process(readBuf) returns e: on nil the loop calls ReadWithContext
\* again, on an error `return err` and the deferred timer.Stop follow
Process(e) ==
    /\ rpc = "process"
    /\ procs' = procs + 1
    /\ failure' = IF failure = Nil THEN e ELSE failure
    /\ rpc' = AfterProcess(e)
    /\ IF AfterProcess(e) = "reading"
         THEN /\ readCalls' = readCalls + 1
              /\ readCtx' = ReadCtx(ctx)
              /\ UNCHANGED <<err, loopErr, timerArmed, timerC>>
         ELSE /\ err' = e
              /\ loopErr' = e
              /\ timerArmed' = FALSE
              /\ timerC' \in ChanAfter(timerC)
              /\ UNCHANGED <<readCalls, readCtx>>
    /\ UNCHANGED <<sessionVars, cancelled, parentCancelled, tmp, sockErr,
                   reads, tpc, setterVars, hookHist, closeHist,
                   resets, callVars>>

\* the deferred function: err1 := s.Close(); if err == nil { err = err1 }
DeferClose ==
    /\ rpc = "cleanup"
    /\ cancelled' = cancel(cancelled)
    /\ closeRet' = Nil
    /\ closeCalls' = closeCalls + 1
    /\ err' = FirstErr(err, Nil)
    /\ rpc' = "pop"
    /\ UNCHANGED <<sessionVars, parentCancelled, readCtx, tmp, loopErr, sockErr, reads,
                   readCalls, procs, failure, timerVars, setterVars, hookHist,
                   extCloses, closeDuringRun,
                   resets, callVars>>

\* close(): s.popOnClose()
Pop ==
    /\ rpc = "pop"
    /\ CanLock(mutex)
    /\ mutex' = popOnCloseUnlock(RunHolder)
    /\ tmp' = popOnClose(onClose).ret
    /\ onClose' = popOnClose(onClose).onClose
    /\ popCount' = popCount + 1
    /\ rpc' = "hooks"
    /\ UNCHANGED <<closeSocket, ctx, cancelled, parentCancelled, err,
                   readCtx, loopErr, sockErr, reads, readCalls, procs, failure,
                   timerVars, setterVars, registered, nBefore, nIdle, nLoop,
                   nLive, invoked, connCloses, closeHist,
                   resets, callVars>>

\* close(): one iteration of `for _, f := range ... { f() }`
InvokeHook ==
    /\ rpc = "hooks"
    /\ tmp /= <<>>
    /\ invoked' = Append(invoked, Head(tmp))
    /\ tmp' = Tail(tmp)
    /\ UNCHANGED <<sessionVars, cancelled, parentCancelled, rpc, err, readCtx,
                   loopErr, sockErr, reads, readCalls, procs, failure, timerVars,
                   setterVars, registered, nBefore, nIdle, nLoop, nLive,
                   popCount, connCloses, closeHist,
                   resets, callVars>>

\* close(): an iteration whose hook calls s.AddOnClose(g) in its body; the
\* hook returns once it got the mutex
HookAddOnClose ==
    /\ rpc = "hooks"
    /\ tmp /= <<>>
    /\ CanLock(mutex)
    /\ onClose' = appendOnClose(onClose, NestedHook(Head(tmp)))
    /\ registered' = Append(registered, NestedHook(Head(tmp)))
    /\ nLive' = nLive + 1
    /\ invoked' = Append(invoked, Head(tmp))
    /\ tmp' = Tail(tmp)
    /\ hookCalls' = hookCalls \cup {"AddOnClose"}
    /\ UNCHANGED <<closeSocket, mutex, ctx, cancelled, parentCancelled, rpc,
                   err, readCtx, loopErr, sockErr, reads, readCalls, procs,
                   failure, timerVars, setterVars, nBefore, nIdle, nLoop,
                   popCount, connCloses, closeHist, resets, lastWrite>>

\* close(): an iteration whose hook calls s.SetContextValue(k, v) in its
\* body; its critical section is one step
HookSetContextValue(k) ==
    /\ rpc = "hooks"
    /\ tmp /= <<>>
    /\ CanLock(mutex)
    /\ ctx' = WithValue(ctx, k, HookValue(Head(tmp)))
    /\ committed' = [committed EXCEPT ![k] = HookValue(Head(tmp))]
    /\ invoked' = Append(invoked, Head(tmp))
    /\ tmp' = Tail(tmp)
    /\ hookCalls' = hookCalls \cup {"SetContextValue"}
    /\ UNCHANGED <<closeSocket, onClose, mutex, cancelled, parentCancelled,
                   rpc, err, readCtx, loopErr, sockErr, reads, readCalls,
                   procs, failure, timerVars, spc, skey, slocal, registered,
                   nBefore, nIdle, nLoop, nLive, popCount, connCloses,
                   closeHist, resets, lastWrite>>

\* a close() that closes the connection while hooks are still to be invoked
CloseConnEarly(r) ==
    /\ rpc = "hooks"
    /\ IF closesConn(closeSocket)
         THEN /\ connCloses' = connCloses + 1
              /\ sockErr' = r
         ELSE /\ r = Nil
              /\ UNCHANGED <<connCloses, sockErr>>
    /\ err' = FirstErr(err, IF closesConn(closeSocket) THEN r ELSE Nil)
    /\ rpc' = "done"
    /\ UNCHANGED <<sessionVars, cancelled, parentCancelled, readCtx, tmp,
                   loopErr, reads, readCalls, procs, failure, timerVars, setterVars,
                   registered, nBefore, nIdle, nLoop, nLive, invoked,
                   popCount, closeHist,
                   resets, callVars>>

\* close() after the hooks: the connection is closed if closeSocket, the
\* result goes through `if err == nil { err = err1 }`, and Run returns
CloseConn(r) ==
    /\ rpc = "hooks"
    /\ tmp = <<>>
    /\ IF closesConn(closeSocket)
         THEN /\ connCloses' = connCloses + 1
              /\ sockErr' = r
         ELSE /\ r = Nil
              /\ UNCHANGED <<connCloses, sockErr>>
    /\ err' = FirstErr(err, IF closesConn(closeSocket) THEN r ELSE Nil)
    /\ rpc' = "done"
    /\ UNCHANGED <<sessionVars, cancelled, parentCancelled, readCtx, tmp,
                   loopErr, reads, readCalls, procs, failure, timerVars, setterVars,
                   registered, nBefore, nIdle, nLoop, nLive, invoked,
                   popCount, closeHist,
                   resets, callVars>>

\* ------------------------------------------------------------ idle timer

\* the inactivity window elapses: the runtime sends on timer.C
TimerFire ==
    /\ timerArmed
    /\ timerArmed' = FALSE
    /\ timerC' = 1
    /\ UNCHANGED <<sessionVars, cancelled, parentCancelled, runVars, tpc,
                   setterVars, hookHist, closeHist,
                   resets, callVars>>

\* a timer goroutine that returns without calling Close
TimerReturn ==
    /\ tpc = "waiting"
    /\ timerC = 1
    /\ timerC' = 0
    /\ timerArmed' = FALSE
    /\ tpc' = "exited"
    /\ UNCHANGED <<sessionVars, cancelled, parentCancelled, runVars,
                   setterVars, hookHist, closeHist,
                   resets, callVars>>

\* the goroutine's `case <-timer.C:`: timer.Stop(), s.Close(), return
TimerExpire ==
    /\ tpc = "waiting"
    /\ timerC = 1
    /\ timerC' = 0
    /\ timerArmed' = FALSE
    /\ cancelled' = cancel(cancelled)
    /\ closeRet' = Nil
    /\ closeCalls' = closeCalls + 1
    /\ tpc' = "exited"
    /\ UNCHANGED <<sessionVars, parentCancelled, runVars, setterVars,
                   hookHist, extCloses, closeDuringRun,
                   resets, callVars>>

\* the steps of Run, of its timer goroutine, and of the callers of Close and
\* AddOnClose
LifecycleNext ==
    \/ Close
    \/ ParentCancel
    \/ \E f \in Hooks : AddOnClose(f)
    \/ RunStart
    \/ ReadOk
    \/ \E e \in ReadErrs : ReadFail(e)
    \/ \E e \in ProcErrs \cup {Nil} : Process(e)
    \/ DeferClose
    \/ Pop
    \/ InvokeHook
    \/ \E r \in SockResults : CloseConn(r)
    \/ TimerFire
    \/ TimerExpire

Next ==
    \/ LifecycleNext
    \/ \E i \in Setters, k \in Keys : SetLock(i, k)
    \/ \E i \in Setters : SetStore(i)

Spec == Init /\ [][Next]_vars

\* the lifecycle together with the callers of WriteMessage
WriteNext ==
    \/ LifecycleNext
    \/ \E ok \in BOOLEAN, msgDone \in BOOLEAN, r \in WriteErrs \cup {Nil} :
          WriteMessage(ok, msgDone, r)

WriteSpec == Init /\ [][WriteNext]_vars

\* Run from its start to its return over a failed read, with hooks that call
\* back into the session and concurrent callers of Close, AddOnClose and
\* SetContextValue
HookNext ==
    \/ Close
    \/ \E f \in Hooks : AddOnClose(f)
    \/ \E i \in Setters, k \in Keys : SetLock(i, k)
    \/ \E i \in Setters : SetStore(i)
    \/ RunStart
    \/ \E e \in ReadErrs : ReadFail(e)
    \/ DeferClose
    \/ Pop
    \/ InvokeHook
    \/ HookAddOnClose
    \/ \E k \in Keys : HookSetContextValue(k)
    \/ \E r \in SockResults : CloseConn(r)

HookSpec == Init /\ [][HookNext]_vars

\* Run, its timer goroutine and the callers of Close and AddOnClose alone
LifecycleSpec == Init /\ [][LifecycleNext]_vars

\* The goroutines are scheduled: the timer goroutine and Run's deferred
\* cleanup take their steps, and an armed timer expires.  Nothing forces the
\* transport to deliver a datagram or an error.  The SetContextValue callers
\* are left out: their steps change only the mutex and the context cell,
\* which no step up to and including the cancellation reads.
FairSpec ==
    /\ Init
    /\ [][LifecycleNext]_vars
    /\ WF_vars(TimerFire)
    /\ WF_vars(TimerExpire)
    /\ WF_vars(DeferClose)

\* Run is scheduled and what it calls returns: a read whose context is done
\* returns the context's error, Process returns, every hook returns, and the
\* deferred cleanup takes its steps.  Nothing forces a datagram, a transport
\* error, a caller of Close or the expiry of the timer.
TerminationSpec ==
    /\ Init
    /\ [][LifecycleNext]_vars
    /\ WF_vars(ReadFail("ctxErr"))
    /\ WF_vars(\E e \in ProcErrs \cup {Nil} : Process(e))
    /\ WF_vars(DeferClose)
    /\ WF_vars(Pop)
    /\ WF_vars(InvokeHook)
    /\ WF_vars(\E r \in SockResults : CloseConn(r))

\* ------------------------------------------------------------- properties

\* how often hook h was invoked
Invocations(h) == Cardinality({i \in DOMAIN invoked : invoked[i] = h})

\* position of hook h in the order of registration
RegPos(h) == CHOOSE i \in DOMAIN registered : registered[i] = h

\* the first non-nil element of a sequence of errors, nil if there is none
RECURSIVE FirstNonNil(_)
FirstNonNil(es) ==
    IF es = <<>> THEN Nil
    ELSE IF Head(es) /= Nil THEN Head(es)
    ELSE FirstNonNil(Tail(es))

\* C1: once Run has returned, every hook registered before the session
\* context was cancelled has been invoked exactly once, the invocations are
\* in registration order, and no hook is ever invoked while the context is
\* not cancelled.
C1_HooksOnceInOrderAfterCancel ==
    /\ invoked /= <<>> => cancelled
    /\ \A i, j \in DOMAIN invoked :
          i < j => RegPos(invoked[i]) < RegPos(invoked[j])
    /\ rpc = "done" =>
          \A n \in 1..nBefore : Invocations(registered[n]) = 1

C1_Witness ==
    /\ rpc = "done"
    /\ nBefore >= 2
    /\ Len(invoked) >= 2

\* C2: a hook passed to AddOnClose after the drain (popOnClose) has taken
\* place is still executed: once the drain has happened every registered
\* hook has been invoked or is in the list being invoked.
C2_HookAfterDrainExecuted ==
    popCount > 0 =>
        \A n \in DOMAIN registered :
            \/ Invocations(registered[n]) = 1
            \/ \E i \in DOMAIN tmp : tmp[i] = registered[n]

\* C3: two AddOnClose calls and a Close call made while Run is active: after
\* Run has returned each of the two hooks has been executed exactly once.
C3_ConcurrentHooksExactlyOnce ==
    (rpc = "done" /\ closeDuringRun /\ nLive - nIdle >= 2) =>
        \A n \in (nIdle + 1)..nLive : Invocations(registered[n]) = 1

\* C4 (as claimed): Done() is signaled if and only if Close() has been
\* called or Run has returned.
C4_DoneIffCloseOrReturned ==
    cancelled <=> (closeCalls > 0 \/ rpc = "done")

\* C4 (amended): Done() is signaled if and only if Close() has been called
\* (by a caller, by the idle timer or by Run's deferred cleanup) or the
\* context passed to NewSession has been cancelled; it is signaled whenever
\* Close() has been called or Run has returned.
C4_DoneIffCloseOrParent ==
    /\ cancelled <=> (closeCalls > 0 \/ parentCancelled)
    /\ rpc = "done" => cancelled

C4_Witness ==
    /\ cancelled
    /\ extCloses > 0
    /\ ~parentCancelled
    /\ rpc = "reading"

\* C5: with closeSocket the connection is closed exactly once, by Run's
\* termination, whatever ended the loop; without closeSocket it is never
\* closed by the session.
C5_ConnClosedOnceIffCloseSocket ==
    /\ closeSocket => (connCloses = IF rpc = "done" THEN 1 ELSE 0)
    /\ ~closeSocket => connCloses = 0

C5_Witness ==
    /\ rpc = "done"
    /\ closeSocket
    /\ connCloses = 1
    /\ tpc = "exited"
    /\ failure = "ctxErr"

\* C6: one teardown per session: the hooks are drained at most once, the
\* connection is closed at most once, and a Close() call made after the
\* first one returns nil and changes nothing of the session.
C6_SingleTeardown ==
    /\ [](popCount <= 1 /\ connCloses <= 1)
    /\ [][(closeCalls' > closeCalls /\ closeCalls >= 1) =>
            /\ closeRet' = Nil
            /\ UNCHANGED <<cancelled, onClose, ctx, invoked, popCount,
                           connCloses, closeSocket>>]_vars

C6_Witness ==
    /\ rpc = "done"
    /\ closeCalls >= 3
    /\ popCount = 1
    /\ connCloses = 1

\* C7: the value of a key in the session context is the value of the last
\* SetContextValue that returned for that key, and when the callers used
\* distinct keys the context holds the pair of every one of them.
C7_NoContextUpdateLost ==
    /\ \A k \in Keys : Value(ctx.vals, k) = committed[k]
    /\ \A i \in Setters :
          (/\ spc[i] = "done"
           /\ \A j \in Setters \ {i} : skey[j] /= skey[i])
          => Value(ctx.vals, skey[i]) = i

C7_Witness ==
    /\ \A i \in Setters : spc[i] = "done"
    /\ \A i, j \in Setters : i /= j => skey[i] /= skey[j]
    /\ Len(ctx.vals) >= 2

\* C8: when the idle window elapses while Run is active (the timer has
\* sent on its channel), the session context eventually becomes cancelled,
\* with no external caller involved.
C8_IdleExpiryCancels ==
    (tpc = "waiting" /\ timerC = 1) ~> cancelled

C8_Witness ==
    /\ cancelled
    /\ tpc = "exited"
    /\ extCloses = 0
    /\ ~parentCancelled
    /\ rpc = "reading"

\* C9: the error Run returns is the first non-nil one of the loop's error,
\* the result of Close() and the result of close().
C9_FirstErrorWins ==
    rpc = "done" => err = FirstNonNil(<<loopErr, closeRet, sockErr>>)

C9_Witness ==
    /\ rpc = "done"
    /\ loopErr = "procErr"
    /\ sockErr = "sockErr"
    /\ err = "procErr"

\* C10: after ReadWithContext or Process has returned an error no further
\* read or Process call is made, and when Run has returned its result is
\* that error, every successful read but a failed one was processed, the
\* hooks registered before the failure have been invoked once each, and
\* the connection has been closed once if closeSocket.
C10_ErrorEndsRun ==
    /\ [][failure /= Nil => (readCalls' = readCalls /\ procs' = procs)]_vars
    /\ [](rpc = "done" =>
            /\ failure /= Nil
            /\ err = failure
            /\ procs = reads
            /\ readCalls = IF failure \in ProcErrs THEN reads ELSE reads + 1
            /\ \A n \in 1..nLoop : Invocations(registered[n]) = 1
            /\ closeSocket => connCloses = 1)

C10_Witness ==
    /\ rpc = "done"
    /\ failure = "procErr"
    /\ reads = 2
    /\ procs = 2
    /\ nLoop >= 1
    /\ closeSocket
    /\ connCloses = 1

\* C11: the idle-timer goroutine is never left waiting for ever: once Run
\* has returned it has exited, or its timer is still running or has sent
\* the value that will make it exit.
C11_TimerGoroutineExits ==
    (rpc = "done" /\ tpc = "waiting") => (timerArmed \/ timerC = 1)

\* C12: a WriteMessage call, failed or not, changes nothing of the session:
\* the context is not cancelled, no hook is drained or invoked, the
\* connection is not closed and Run stays where it is; and a call whose
\* Marshal failed returns that error without a transport write.
C12_WriteFailureLeavesSession ==
    /\ [](lastWrite.ret = EncErr => ~lastWrite.attempted)
    /\ [][lastWrite' /= lastWrite =>
            UNCHANGED <<cancelled, closeCalls, rpc, err, onClose, tmp,
                        invoked, popCount, connCloses, ctx>>]_vars

C12_Witness ==
    /\ lastWrite.ret = "writeErr"
    /\ ~lastWrite.sessionDone
    /\ ~cancelled
    /\ rpc = "process"
    /\ reads = 2

\* C13: the cleanup runs in order: the context is cancelled before the
\* hooks are drained and before the first one is invoked, and the
\* connection is closed only when every drained hook has been invoked.
C13_CleanupInOrder ==
    /\ (popCount > 0 \/ tmp /= <<>> \/ invoked /= <<>>) => cancelled
    /\ connCloses > 0 => (popCount = 1 /\ tmp = <<>>)
    /\ tmp /= <<>> => (rpc = "hooks" /\ connCloses = 0)

C13_Witness ==
    /\ rpc = "done"
    /\ connCloses = 1
    /\ Len(invoked) >= 2

\* C14: every context the session holds or has handed out (the stored one,
\* the one a SetContextValue caller is about to store, the one the read in
\* flight was called with) derives from the cancellable context of
\* NewSession, so that once Close() has been called all of them are done.
C14_SnapshotsShareRoot ==
    /\ ctx.root = SessionCtx.root
    /\ readCtx.root = SessionCtx.root
    /\ \A i \in Setters : slocal[i].root = SessionCtx.root
    /\ closeCalls > 0 =>
          /\ IsDone(ctx, cancelled)
          /\ IsDone(readCtx, cancelled)
          /\ \A i \in Setters : IsDone(slocal[i], cancelled)

C14_Witness ==
    /\ extCloses > 0
    /\ rpc = "reading"
    /\ Len(ctx.vals) >= 2
    /\ IsDone(readCtx, cancelled)
    /\ IsDone(ctx, cancelled)

\* C15: reads and Process calls alternate: a read is in flight only when
\* every datagram read so far has been processed without error, Process
\* runs only on a datagram just read, and when the loop has ended every
\* datagram read has been processed once and no failed read was.
C15_ReadsAndProcessAlternate ==
    /\ rpc = "idle" => (readCalls = 0 /\ reads = 0 /\ procs = 0)
    /\ rpc = "reading" =>
          (readCalls = reads + 1 /\ procs = reads /\ failure = Nil)
    /\ rpc = "process" =>
          (readCalls = reads /\ procs + 1 = reads /\ failure = Nil)
    /\ rpc \notin InLoop => (procs = reads /\ readCalls <= reads + 1)

C15_Witness ==
    /\ rpc = "reading"
    /\ reads = 2
    /\ procs = 2
    /\ readCalls = 3

C17_WriteBoundByMessageContext ==
    /\ []((lastWrite.ret /= None /\ lastWrite.ret /= EncErr)
            => lastWrite.attempted)
    /\ [](lastWrite.attempted =>
            (lastWrite.ret = "ctxErr" <=> lastWrite.msgDone))
    /\ [][lastWrite' /= lastWrite => cancelled' = cancelled]_vars

C17_Witness ==
    /\ lastWrite.attempted
    /\ lastWrite.sessionDone
    /\ ~lastWrite.msgDone
    /\ lastWrite.ret = Nil
    /\ rpc = "done"

\* C18: once the session context is cancelled while Run is active (by Close
\* or by the expired idle timer), the read in flight returns an error and Run
\* goes on to return with the session closed: context cancelled, hooks
\* drained and invoked, connection closed when closeSocket is set.
C18_TriggeredRunTerminates ==
    (cancelled /\ rpc \in InLoop \ {"idle"})
        ~> (/\ rpc = "done"
            /\ cancelled
            /\ failure /= Nil
            /\ popCount = 1
            /\ tmp = <<>>
            /\ closesConn(closeSocket) => connCloses = 1)

C18_Witness ==
    /\ rpc = "done"
    /\ tpc = "exited"
    /\ extCloses = 0
    /\ failure = "ctxErr"
    /\ reads = 1
    /\ Len(invoked) = 2
    /\ connCloses = 1

\* C19: the hooks are invoked with the mutex released by popOnClose: while
\* close() is in its loop the mutex is never held by Run's goroutine, it is
\* free unless a SetContextValue caller is inside its critical section, so
\* a hook calling AddOnClose or SetContextValue and any concurrent caller
\* get it.
C19_HooksRunUnlocked ==
    rpc = "hooks" =>
        /\ mutex /= RunHolder
        /\ mutex \in Setters => spc[mutex] = "locked"
        /\ (\A i \in Setters : spc[i] /= "locked") => CanLock(mutex)

C19_Witness ==
    /\ rpc = "hooks"
    /\ Len(invoked) = 2
    /\ hookCalls = {"AddOnClose", "SetContextValue"}
    /\ \E i \in Setters : spc[i] = "locked" /\ mutex = i
    /\ Len(onClose) = 1

\* C20: Run never returns nil: the loop ends only with a non-nil error of
\* the read or of Process, and Run returns that error, never the one of
\* connection.Close().
C20_RunReturnsLoopError ==
    /\ rpc \notin InLoop => loopErr \in ReadErrs \cup ProcErrs
    /\ rpc = "done" => (err = loopErr /\ err /= Nil)

C20_Witness ==
    /\ rpc = "done"
    /\ sockErr = "sockErr"
    /\ err = "readErr"

=============================================================================
